---- MODULE Spec2Model ----
(***************************************************************************)
(* Verification model of the DataFlowGuard policy-gated test execution     *)
(* engine: the SQL guardrail of the Snowflake connector, the connector's   *)
(* explain/select operations, the run orchestrator (RunnerService) and the *)
(* live progress bus (SSEService).                                         *)
(***************************************************************************)
EXTENDS Integers, Sequences, FiniteSets, TLC

(***************************************************************************)
(* PART 1 - SQL text.  A SQL string is a sequence of characters; each      *)
(* character is a one-character string.                                    *)
(***************************************************************************)

LowerChars == <<"a","b","c","d","e","f","g","h","i","j","k","l","m",
                "n","o","p","q","r","s","t","u","v","w","x","y","z">>

UpperChars == <<"A","B","C","D","E","F","G","H","I","J","K","L","M",
                "N","O","P","Q","R","S","T","U","V","W","X","Y","Z">>

DigitChars == {"0","1","2","3","4","5","6","7","8","9"}

Range(f) == {f[i] : i \in DOMAIN f}

\* str.upper() on one character
UpperChar(c) ==
    IF \E i \in DOMAIN LowerChars : LowerChars[i] = c
    THEN UpperChars[CHOOSE i \in DOMAIN LowerChars : LowerChars[i] = c]
    ELSE c

\* str.upper()
Upper(s) == [i \in DOMAIN s |-> UpperChar(s[i])]

\* regex \s
IsSpace(c) == c \in {" ", "\n", "\t"}

\* regex \w
IsWordChar(c) == c \in Range(LowerChars) \cup Range(UpperChars) \cup DigitChars \cup {"_"}

\* s[i..j] (1-based, inclusive); empty when j < i
Slice(s, i, j) == IF j < i THEN << >> ELSE SubSeq(s, i, j)

\* s[i:] startswith p
StartsWithAt(s, i, p) ==
    /\ i + Len(p) - 1 <= Len(s)
    /\ \A k \in 1..Len(p) : s[i + k - 1] = p[k]

\* str.startswith
StartsWith(s, p) == StartsWithAt(s, 1, p)

\* least index k >= from with s[k..] starting with p, or 0
FindFrom(s, from, p) ==
    LET hits == {k \in from..Len(s) : StartsWithAt(s, k, p)}
    IN  IF hits = {} THEN 0 ELSE CHOOSE k \in hits : \A m \in hits : k <= m

\* re.sub(r'--.*?\n', ' ', sql): a line comment is removed only when a newline
\* ends it ('.' does not match a newline, so the match runs to the first one)
RECURSIVE StripLineComments(_)
StripLineComments(s) ==
    LET open == FindFrom(s, 1, <<"-", "-">>)
        nl   == IF open = 0 THEN 0 ELSE FindFrom(s, open + 2, <<"\n">>)
    IN  IF nl = 0 THEN s
        ELSE Slice(s, 1, open - 1) \o <<" ">>
                \o StripLineComments(Slice(s, nl + 1, Len(s)))

\* re.sub(r'/\*.*?\*/', ' ', sql, flags=re.DOTALL): removed only when closed
RECURSIVE StripBlockComments(_)
StripBlockComments(s) ==
    LET open  == FindFrom(s, 1, <<"/", "*">>)
        close == IF open = 0 THEN 0 ELSE FindFrom(s, open + 2, <<"*", "/">>)
    IN  IF close = 0 THEN s
        ELSE Slice(s, 1, open - 1) \o <<" ">>
                \o StripBlockComments(Slice(s, close + 2, Len(s)))

\* re.sub(r'\s+', ' ', sql): one blank for every run of whitespace
CollapseWhitespace(s) ==
    LET kept == SelectSeq([i \in 1..Len(s) |-> i],
                          LAMBDA i : ~(IsSpace(s[i]) /\ i > 1 /\ IsSpace(s[i - 1])))
    IN  [n \in 1..Len(kept) |-> IF IsSpace(s[kept[n]]) THEN " " ELSE s[kept[n]]]

\* str.strip()
Strip(s) ==
    LET keep == {i \in DOMAIN s : ~IsSpace(s[i])}
    IN  IF keep = {} THEN << >>
        ELSE Slice(s, CHOOSE i \in keep : \A k \in keep : i <= k,
                      CHOOSE j \in keep : \A k \in keep : k <= j)

\* sql_clean of _validate_sql
Normalize(sql) == Strip(CollapseWhitespace(StripBlockComments(StripLineComments(sql))))

\* str.split(';')
RECURSIVE SplitSemi(_)
SplitSemi(s) ==
    LET semi == FindFrom(s, 1, <<";">>)
    IN  IF semi = 0 THEN <<s>>
        ELSE <<Slice(s, 1, semi - 1)>> \o SplitSemi(Slice(s, semi + 1, Len(s)))

\* [s.strip() for s in sql_clean.split(';') if s.strip()]
Statements(clean) ==
    SelectSeq([i \in DOMAIN SplitSemi(clean) |-> Strip(SplitSemi(clean)[i])],
              LAMBDA st : Len(st) > 0)

\* re.search(rf'\b{keyword}\b', text)
WordSearch(text, keyword) ==
    \E i \in 1..Len(text) :
        /\ StartsWithAt(text, i, keyword)
        /\ (i = 1 \/ ~IsWordChar(text[i - 1]))
        /\ (i + Len(keyword) - 1 = Len(text) \/ ~IsWordChar(text[i + Len(keyword)]))

(***************************************************************************)
(* PART 2 - the guardrail, SnowflakeConnector._validate_sql.               *)
(***************************************************************************)

\* self._forbidden_keywords as __init__ sets it, without DROP
forbidden_keywords_without_drop ==
    { <<"I","N","S","E","R","T">>,
    <<"U","P","D","A","T","E">>,
    <<"D","E","L","E","T","E">>,
    <<"M","E","R","G","E">>,
    <<"C","R","E","A","T","E">>,
    <<"A","L","T","E","R">>,
    <<"T","R","U","N","C","A","T","E">>,
    <<"G","R","A","N","T">>,
    <<"R","E","V","O","K","E">>,
    <<"C","A","L","L">>,
    <<"U","S","E">>,
    <<"C","O","P","Y">>,
    <<"P","U","T">>,
    <<"G","E","T">>,
    <<"B","E","G","I","N">>,
    <<"C","O","M","M","I","T">>,
    <<"R","O","L","L","B","A","C","K">>,
    <<"S","E","T">>,
    <<"U","N","S","E","T">> }

\* self._forbidden_keywords
_forbidden_keywords ==
    { <<"I","N","S","E","R","T">>,
    <<"U","P","D","A","T","E">>,
    <<"D","E","L","E","T","E">>,
    <<"M","E","R","G","E">>,
    <<"C","R","E","A","T","E">>,
    <<"A","L","T","E","R">>,
    <<"D","R","O","P">>,
    <<"T","R","U","N","C","A","T","E">>,
    <<"G","R","A","N","T">>,
    <<"R","E","V","O","K","E">>,
    <<"C","A","L","L">>,
    <<"U","S","E">>,
    <<"C","O","P","Y">>,
    <<"P","U","T">>,
    <<"G","E","T">>,
    <<"B","E","G","I","N">>,
    <<"C","O","M","M","I","T">>,
    <<"R","O","L","L","B","A","C","K">>,
    <<"S","E","T">>,
    <<"U","N","S","E","T">> }

\* allowed_prefixes of _validate_sql
allowed_prefixes == { <<"S","E","L","E","C","T">>, <<"W","I","T","H">>, <<"E","X","P","L","A","I","N">> }

\* regex [A-Z_]
IsIdentStart(c) == c \in Range(UpperChars) \cup {"_"}

\* regex [A-Z0-9_]
IsIdentChar(c) == c \in Range(UpperChars) \cup DigitChars \cup {"_"}

\* end index of the greedy match of [A-Z_][A-Z0-9_]* at i, or 0 (i = 0: no match before)
IdentEnd(text, i) ==
    IF i = 0 \/ i > Len(text) \/ ~IsIdentStart(text[i]) THEN 0
    ELSE IF \A k \in (i + 1)..Len(text) : IsIdentChar(text[k]) THEN Len(text)
    ELSE (CHOOSE k \in (i + 1)..Len(text) :
              ~IsIdentChar(text[k]) /\ \A m \in (i + 1)..(k - 1) : IsIdentChar(text[m])) - 1

\* index after the match of \. that follows index e, or 0
DotAfter(text, e) == IF e > 0 /\ e < Len(text) /\ text[e + 1] = "." THEN e + 2 ELSE 0

\* end index of the greedy match of \s+ at i, or 0
SpacesEnd(text, i) ==
    IF i > Len(text) \/ ~IsSpace(text[i]) THEN 0
    ELSE IF \A k \in (i + 1)..Len(text) : IsSpace(text[k]) THEN Len(text)
    ELSE (CHOOSE k \in (i + 1)..Len(text) :
              ~IsSpace(text[k]) /\ \A m \in (i + 1)..(k - 1) : IsSpace(text[m])) - 1

\* where the group of the pattern starts for a match at i: after <lead>\s+,
\* at i itself when lead is empty; 0 when the lead does not match
GroupStart(text, i, lead) ==
    IF Len(lead) = 0 THEN i
    ELSE IF StartsWithAt(text, i, lead) /\ SpacesEnd(text, i + Len(lead)) > 0
    THEN SpacesEnd(text, i + Len(lead)) + 1
    ELSE 0

\* a match, or no match when the third identifier is missing
SchemaMatch(start, group, schema_end, end) ==
    IF end > 0
    THEN [start |-> start, group |-> group, schema_end |-> schema_end, end |-> end]
    ELSE [start |-> 0, group |-> 0, schema_end |-> 0, end |-> 0]

\* match at i of \b<lead>\s+(ident\.ident\.ident), or of \b(ident\.ident\.ident)
\* when lead is empty; start = 0 when there is none
SchemaPatternAt(text, i, lead) ==
    IF (i = 1 \/ ~IsWordChar(text[i - 1])) /\ GroupStart(text, i, lead) > 0
    THEN SchemaMatch(i, GroupStart(text, i, lead),
             IdentEnd(text, DotAfter(text, IdentEnd(text, GroupStart(text, i, lead)))),
             IdentEnd(text, DotAfter(text,
                 IdentEnd(text, DotAfter(text, IdentEnd(text, GroupStart(text, i, lead)))))))
    ELSE SchemaMatch(0, 0, 0, 0)

\* re.findall takes the leftmost match and resumes after its end: of the
\* places where the pattern matches, one is taken unless a taken match before
\* it reaches over it
Taken(found) ==
    CHOOSE M \in SUBSET found :
        \A m \in found : m \in M <=> ~\E j \in M : j.start < m.start /\ j.end >= m.start

\* re.findall(pattern, sql_upper), each match cut to "db.schema"
findall_schema(text, lead) ==
    { Slice(text, m.group, m.schema_end) :
        m \in Taken({ SchemaPatternAt(text, k, lead) : k \in 1..Len(text) }
                        \ { SchemaMatch(0, 0, 0, 0) }) }

\* referenced_schemas of _validate_schema_access
referenced_schemas(sql_upper) ==
    findall_schema(sql_upper, <<"F","R","O","M">>)
      \cup findall_schema(sql_upper, <<"J","O","I","N">>)
      \cup findall_schema(sql_upper, << >>)

\* _validate_schema_access: TRUE when it raises
_validate_schema_access(sql_upper, allowed) ==
    \E ref \in referenced_schemas(sql_upper) : ref \notin allowed

\* _validate_sql with the prefix check moved before the statement count
validate_sql_prefix_first(sql, allowed) ==
    LET sql_clean == Normalize(sql)
        sql_upper == Upper(sql_clean)
    IN  IF ~\E p \in allowed_prefixes : StartsWith(sql_upper, p) THEN "DisallowedPrefix"
        ELSE IF Len(Statements(sql_clean)) > 1 THEN "MultipleStatements"
        ELSE IF \E k \in _forbidden_keywords : WordSearch(sql_upper, k) THEN "ForbiddenKeyword"
        ELSE IF allowed # {} /\ _validate_schema_access(sql_upper, allowed) THEN "SchemaNotAllowed"
        ELSE "ok"

\* _validate_sql: "ok" when it returns, else the reason of the ValueError raised
_validate_sql(sql, allowed) ==
    LET sql_clean == Normalize(sql)
        sql_upper == Upper(sql_clean)
    IN  IF Len(Statements(sql_clean)) > 1 THEN "MultipleStatements"
        ELSE IF ~\E p \in allowed_prefixes : StartsWith(sql_upper, p) THEN "DisallowedPrefix"
        ELSE IF \E k \in _forbidden_keywords : WordSearch(sql_upper, k) THEN "ForbiddenKeyword"
        ELSE IF allowed # {} /\ _validate_schema_access(sql_upper, allowed) THEN "SchemaNotAllowed"
        ELSE "ok"

(***************************************************************************)
(* PART 3 - guardrail inputs.  A SQL input is built by appending lexical   *)
(* pieces; the guardrail then runs on the resulting characters.            *)
(***************************************************************************)

\* longest input, in pieces
MaxPieces == 4

Pieces ==
    { <<"S","E","L","E","C","T">>,
      <<"X">>,
      <<"d","r","o","p">>,
      <<"R","E","N","A","M","E">>,
      <<" ">>,
      <<"\n">>,
      <<";">>,
      <<"-","-">>,
      <<"/","*">>,
      <<"*","/">> }

VARIABLES
    sql_text,        \* the SQL text handed to the guardrail
    npieces,    \* pieces appended so far
    allowed_schemas,  \* SnowflakeConnector.allowed_schemas
    verdict     \* "none" before _validate_sql has run, then its outcome

guardVars == <<sql_text, npieces, allowed_schemas, verdict>>

VARIABLES
    runs,               \* RunnerService._runs: run id -> RunSummary (status "absent": no entry)
    results,            \* RunnerService._results: run id -> list of TestResult, or NoResults
    task,               \* the execute_suite coroutine of each run: its position and locals
    connection,         \* run id -> whether the run's connector holds a connection
    wh_log,             \* calls made to the warehouse: [run, test, op, bytes]
    stats_result,       \* what the latest get_table_stats call returned or raised
    scan_budget_bytes,  \* SnowflakeConnector.scan_budget_bytes (DFG_SCAN_BUDGET_BYTES)
    now,                \* the clock, datetime.utcnow()
    response            \* what the latest execute_suite call or run route answered

runnerVars ==
    <<runs, results, task, connection, wh_log, stats_result, scan_budget_bytes, now, response>>

VARIABLES
    connections,        \* SSEService._connections: run id -> the subscribers whose queue is registered
    queue,              \* subscriber -> the messages in its asyncio.Queue
    stream,             \* subscriber -> its stream_run_updates generator: position, run, events yielded
    published           \* subscriber -> the messages broadcast for its run while its stream was open

busVars == <<connections, queue, stream, published>>

VARIABLES
    column_name,        \* the column of the sample value handed to _redact_column_value
    value,              \* the value: None, or its str(value) as characters
    redacted            \* "unset" before _redact_column_value has run, then what it returned

redactVars == <<column_name, value, redacted>>

VARIABLES
    is_available,       \* LocalOllamaAdapter._is_available: "None", TRUE or FALSE
    generated,          \* (prompt, seed) -> the texts generate returned for it so far
    executed,           \* the statements a cursor of a SnowflakeConnector executed
    engine_result       \* what the latest call on the connector or an engine did

engineVars == <<is_available, generated, executed, engine_result>>

vars == <<guardVars, runnerVars, busVars, redactVars, engineVars>>

\* SnowflakeConnector._parse_allowed_schemas with DFG_ALLOWED_SCHEMAS unset
_parse_allowed_schemas == {}

GuardInit ==
    /\ sql_text = << >>
    /\ npieces = 0
    /\ allowed_schemas = _parse_allowed_schemas
    /\ verdict = "none"

\* the caller composes the SQL text
AppendPiece(p) ==
    /\ verdict = "none"
    /\ npieces < MaxPieces
    /\ sql_text' = sql_text \o p
    /\ npieces' = npieces + 1
    /\ UNCHANGED <<allowed_schemas, verdict>>
    /\ UNCHANGED <<runnerVars, busVars, redactVars, engineVars>>

\* SnowflakeConnector._validate_sql(sql_text)
ValidateSql ==
    /\ verdict = "none"
    /\ verdict' = _validate_sql(sql_text, allowed_schemas)
    /\ UNCHANGED <<sql_text, npieces, allowed_schemas>>
    /\ UNCHANGED <<runnerVars, busVars, redactVars, engineVars>>

GuardNext ==
    \/ \E p \in Pieces : AppendPiece(p)
    \/ ValidateSql


Accepted == verdict = "ok"

(***************************************************************************)
(* Guardrail properties (C1 - C3).  They are stated over the words and     *)
(* statements of the normalised text, computed independently of the        *)
(* regular-expression searches of _validate_sql.                           *)
(***************************************************************************)

\* end index of the run of word characters that starts at i
WordEnd(text, i) ==
    LET stops == {k \in i..Len(text) : ~IsWordChar(text[k])}
    IN  IF stops = {} THEN Len(text)
        ELSE (CHOOSE k \in stops : \A m \in stops : k <= m) - 1

\* the maximal runs of word characters of a text
WordsOf(text) ==
    { Slice(text, i, WordEnd(text, i)) :
        i \in { k \in 1..Len(text) :
                  IsWordChar(text[k]) /\ (k = 1 \/ ~IsWordChar(text[k - 1])) } }

\* the first token of a text: its leading run of word characters
FirstToken(text) ==
    LET stops == {k \in 1..Len(text) : ~IsWordChar(text[k])}
    IN  IF stops = {} THEN text
        ELSE Slice(text, 1, (CHOOSE k \in stops : \A m \in stops : k <= m) - 1)

\* number of ';'-separated segments of a text that hold a non-blank character
StatementCount(text) ==
    LET cuts == {0, Len(text) + 1} \cup {k \in 1..Len(text) : text[k] = ";"}
        nextCut(a) == CHOOSE b \in cuts : b > a /\ \A c \in cuts : c > a => b <= c
    IN  Cardinality({a \in cuts \ {Len(text) + 1} :
                        \E k \in (a + 1)..(nextCut(a) - 1) : ~IsSpace(text[k])})

\* the denylist as the specification's 4.A step 4 states it
SpecForbiddenKeywords ==
    { <<"I","N","S","E","R","T">>, <<"U","P","D","A","T","E">>,
      <<"D","E","L","E","T","E">>, <<"M","E","R","G","E">>,
      <<"C","R","E","A","T","E">>, <<"A","L","T","E","R">>, <<"D","R","O","P">>,
      <<"R","E","N","A","M","E">>, <<"T","R","U","N","C","A","T","E">>,
      <<"G","R","A","N","T">>, <<"R","E","V","O","K","E">>, <<"C","A","L","L">>,
      <<"U","S","E">>, <<"C","O","P","Y">>, <<"P","U","T">>, <<"G","E","T">>,
      <<"B","E","G","I","N">>, <<"C","O","M","M","I","T">>,
      <<"R","O","L","L","B","A","C","K">>, <<"S","E","T">>, <<"U","N","S","E","T">>,
      <<"E","X","E","C","U","T","E">>, <<"V","A","C","U","U","M">>,
      <<"A","N","A","L","Y","Z","E">> }

\* the four keywords of that list which the connector does not deny
UndeniedKeywords ==
    { <<"R","E","N","A","M","E">>, <<"E","X","E","C","U","T","E">>,
      <<"V","A","C","U","U","M">>, <<"A","N","A","L","Y","Z","E">> }

C3_FirstTokenAllowed ==
    Accepted => FirstToken(Upper(Normalize(sql_text))) \in allowed_prefixes

(***************************************************************************)
(* PART 4 - the warehouse client (SnowflakeConnector) and the run          *)
(* orchestrator (RunnerService).                                           *)
(***************************************************************************)

\* execute_suite calls made on the RunnerService
MaxRuns == 1

\* latest reading of the clock
MaxClock == 1

RunIds == 1..MaxRuns

\* Optional[...] = None of the integer fields of RunSummary
NoneVal == 0 - 1

\* RunnerService._generate_test_sql, uniqueness template
uniqueness_sql(dataset, keys) ==
    <<"\n"," "," "," "," "," "," "," "," "," "," "," "," ","S","E","L","E","C","T"," ">> \o
    keys \o
    <<","," ","C","O","U","N","T","(","*",")"," ","a","s"," ","d","u","p","l","i","c","a","t",
      "e","_","c","o","u","n","t","\n"," "," "," "," "," "," "," "," "," "," "," "," ","F","R",
      "O","M"," ">> \o
    dataset \o
    <<"\n"," "," "," "," "," "," "," "," "," "," "," "," ","G","R","O","U","P"," ","B","Y"," ">> \o
    keys \o
    <<"\n"," "," "," "," "," "," "," "," "," "," "," "," ","H","A","V","I","N","G"," ","C","O",
      "U","N","T","(","*",")"," ",">"," ","1","\n"," "," "," "," "," "," "," "," "," "," "," ",
      " ">>

\* RunnerService._generate_test_sql, not_null template
not_null_sql(dataset, keys) ==
    <<"\n"," "," "," "," "," "," "," "," "," "," "," "," ","S","E","L","E","C","T"," ","C","O",
      "U","N","T","(","*",")"," ","a","s"," ","n","u","l","l","_","c","o","u","n","t","\n"," ",
      " "," "," "," "," "," "," "," "," "," "," ","F","R","O","M"," ">> \o
    dataset \o
    <<"\n"," "," "," "," "," "," "," "," "," "," "," "," ","W","H","E","R","E"," ">> \o
    keys \o
    <<" ","I","S"," ","N","U","L","L","\n"," "," "," "," "," "," "," "," "," "," "," "," ">>

\* RunnerService._generate_test_sql, freshness template
freshness_sql(dataset) ==
    <<"\n"," "," "," "," "," "," "," "," "," "," "," "," ","S","E","L","E","C","T"," ","\n"," ",
      " "," "," "," "," "," "," "," "," "," "," "," "," "," "," ","M","A","X","(","O","R","D",
      "E","R","_","T","S",")"," ","a","s"," ","m","a","x","_","t","i","m","e","s","t","a","m",
      "p",",","\n"," "," "," "," "," "," "," "," "," "," "," "," "," "," "," "," ","C","U","R",
      "R","E","N","T","_","T","I","M","E","S","T","A","M","P","(",")"," ","a","s"," ","c","u",
      "r","r","e","n","t","_","t","i","m","e","s","t","a","m","p",",","\n"," "," "," "," "," ",
      " "," "," "," "," "," "," "," "," "," "," ","D","A","T","E","D","I","F","F","(","'","h",
      "o","u","r","'",","," ","M","A","X","(","O","R","D","E","R","_","T","S",")",","," ","C",
      "U","R","R","E","N","T","_","T","I","M","E","S","T","A","M","P","(",")",")"," ","a","s",
      " ","h","o","u","r","s","_","l","a","g","\n"," "," "," "," "," "," "," "," "," "," "," ",
      " ","F","R","O","M"," ">> \o
    dataset \o
    <<"\n"," "," "," "," "," "," "," "," "," "," "," "," ">>

\* SnowflakeConnector.get_table_stats: count_sql
count_sql(dataset) ==
    <<"S","E","L","E","C","T"," ","C","O","U","N","T","(","*",")"," ","a","s"," ","r","o","w",
      "_","c","o","u","n","t"," ","F","R","O","M"," ">> \o
    dataset

ORDERS == <<"P","R","O","D","_","D","B",".","R","A","W",".","O","R","D","E","R","S">>

ORDER_ID == <<"O","R","D","E","R","_","I","D">>

\* table names a caller hands to get_table_stats
Datasets == << <<"T">>, <<"T", ";", "X">> >>

\* TestDefinition
TestDef(name, type, dataset, keys) ==
    [name |-> name, type |-> type, dataset |-> dataset, keys |-> keys]

\* The suite store behind _get_test_suite.  orders_basic is the suite the
\* mock implementation returns; the others are suites a store returns in its
\* place (the repository's tests patch _get_test_suite with their own suite).
SuiteStore ==
    [ orders_basic |->
        << TestDef("pk_uniqueness_orders", "uniqueness", ORDERS, ORDER_ID),
           TestDef("not_null_order_id", "not_null", ORDERS, ORDER_ID),
           TestDef("freshness_orders", "freshness", ORDERS, << >>) >>,
      patched |->
        << TestDef("not_null_injected", "not_null", <<"T", ";", "X">>, << >>),
           TestDef("rule_total", "rule", <<"T">>, << >>),
           TestDef("not_null_t", "not_null", <<"T">>, << >>) >>,
      empty |-> << >> ]

\* suite ids a request names; "missing" is in no store
SuiteIds == DOMAIN SuiteStore \cup {"missing"}

\* a store that answers an unknown id with an empty suite
get_test_suite_or_empty(suite_id) ==
    [found |-> TRUE, name |-> suite_id,
     tests |-> IF suite_id \in DOMAIN SuiteStore THEN SuiteStore[suite_id] ELSE << >>]

\* RunnerService._get_test_suite: the suite, or None (found = FALSE)
_get_test_suite(suite_id) ==
    IF suite_id \in DOMAIN SuiteStore
    THEN [found |-> TRUE, name |-> suite_id, tests |-> SuiteStore[suite_id]]
    ELSE [found |-> FALSE, name |-> suite_id, tests |-> << >>]

\* RunnerService._generate_test_sql: the SQL, or the exception it raises.  A
\* rule test awaits ai_adapter.compile_expression with a dict, whose attribute
\* access request.expression raises; any other type is unsupported.
_generate_test_sql(test) ==
    IF test.type = "uniqueness"
    THEN [raised |-> FALSE, sql |-> uniqueness_sql(test.dataset, test.keys)]
    ELSE IF test.type = "not_null"
    THEN [raised |-> FALSE,
          sql |-> not_null_sql(test.dataset,
                               IF Len(test.keys) > 0 THEN test.keys ELSE <<"i", "d">>)]
    ELSE IF test.type = "freshness"
    THEN [raised |-> FALSE, sql |-> freshness_sql(test.dataset)]
    ELSE [raised |-> TRUE, sql |-> << >>]

\* the SQL texts the orchestrator and get_table_stats hand to the connector
ConnectorSql ==
    {count_sql(Datasets[d]) : d \in DOMAIN Datasets}
      \cup UNION { {_generate_test_sql(SuiteStore[s][i]).sql : i \in DOMAIN SuiteStore[s]} :
                     s \in DOMAIN SuiteStore }

\* _validate_sql on these texts under the allowlist of the environment
ValidatedSql == [s \in ConnectorSql |-> _validate_sql(s, _parse_allowed_schemas)]

\* self._validate_sql(sql) as explain and select call it: "ok" or the violation
validate(sql, allowed) ==
    IF allowed = _parse_allowed_schemas /\ sql \in ConnectorSql
    THEN ValidatedSql[sql]
    ELSE _validate_sql(sql, allowed)

\* no entry in _runs
NoRun ==
    [suite_name |-> "", status |-> "absent", total_tests |-> 0, passed_tests |-> 0,
     failed_tests |-> 0, error_tests |-> 0, skipped_tests |-> 0, started_at |-> NoneVal,
     ended_at |-> NoneVal, execution_time_ms |-> NoneVal, artifacts |-> FALSE]

\* no entry in _results: a list no test loop produces
NoResults == <<[test_name |-> "", status |-> "unset", error |-> ""]>>

\* a coroutine that was never started
NoTask ==
    [pc |-> "none", suite |-> "", dry_run |-> FALSE, validated |-> 0, test_filter |-> {},
     idx |-> 0, test_results |-> << >>, budget_seconds |-> NoneVal]

\* RunSummary(...) as execute_suite creates it
RunSummary(suite, started) ==
    [suite_name |-> suite.name, status |-> "running", total_tests |-> Len(suite.tests),
     passed_tests |-> 0, failed_tests |-> 0, error_tests |-> 0, skipped_tests |-> 0,
     started_at |-> started, ended_at |-> NoneVal, execution_time_ms |-> NoneVal,
     artifacts |-> FALSE]

\* TestResult(test_name, status, error_message); the message is kept as its kind
TestResult(name, status, error) == [test_name |-> name, status |-> status, error |-> error]

TerminalStatuses == {"completed", "failed", "cancelled"}

\* the answers the warehouse can give to an explain: whether a connection can
\* be opened, whether the statement executes, the bytes the plan estimates
ExplainAnswers == [connect : {"ok", "fail"}, execute : {"ok", "fail"}, bytes : {1, 3}]

\* the answers the warehouse can give to a select
SelectAnswers == [connect : {"ok", "fail"}, execute : {"ok", "fail"}, rows : {"clean", "violating"}]

\* sum(1 for r in test_results if r.status == status)
CountStatus(test_results, status) ==
    Cardinality({i \in DOMAIN test_results : test_results[i].status = status})

\* a call made to the warehouse; bytes is the estimate an EXPLAIN answered (0: none)
Call(op, bytes) == [op |-> op, bytes |-> bytes]

\* "if not self.connection: await self.connect()"
ConnectCalls(connected) == IF connected THEN {} ELSE {Call("connect", 0)}

\* the scan-budget check switched off
over_budget_never(budget, estimated_bytes) == FALSE

\* the scan-budget check of explain
over_budget(budget, estimated_bytes) == budget > 0 /\ estimated_bytes > budget

\* explain without the guardrail call
explain_unvalidated(sql, allowed, connected, budget, ans) ==
    IF ~connected /\ ans.connect = "fail"
    THEN [raised |-> TRUE, error |-> "Upstream", connected |-> FALSE,
          calls |-> ConnectCalls(connected)]
    ELSE IF ans.execute = "fail"
    THEN [raised |-> TRUE, error |-> "Upstream", connected |-> TRUE,
          calls |-> ConnectCalls(connected) \cup {Call("explain", 0)}]
    ELSE [raised |-> over_budget(budget, ans.bytes),
          error |-> IF over_budget(budget, ans.bytes) THEN "BudgetExceeded" ELSE "",
          connected |-> TRUE,
          calls |-> ConnectCalls(connected) \cup {Call("explain", ans.bytes)}]

\* SnowflakeConnector.explain: _validate_sql, connect when there is no
\* connection, EXPLAIN USING TEXT, then the scan-budget check.  error stands
\* for the message of the exception raised; calls are the warehouse calls made.
explain(sql, allowed, connected, budget, ans) ==
    IF validate(sql, allowed) # "ok"
    THEN [raised |-> TRUE, error |-> validate(sql, allowed), connected |-> connected,
          calls |-> {}]
    ELSE IF ~connected /\ ans.connect = "fail"
    THEN [raised |-> TRUE, error |-> "Upstream", connected |-> FALSE,
          calls |-> ConnectCalls(connected)]
    ELSE IF ans.execute = "fail"
    THEN [raised |-> TRUE, error |-> "Upstream", connected |-> TRUE,
          calls |-> ConnectCalls(connected) \cup {Call("explain", 0)}]
    ELSE [raised |-> over_budget(budget, ans.bytes),
          error |-> IF over_budget(budget, ans.bytes) THEN "BudgetExceeded" ELSE "",
          connected |-> TRUE,
          calls |-> ConnectCalls(connected) \cup {Call("explain", ans.bytes)}]

\* SnowflakeConnector.select: _validate_sql, connect when there is no
\* connection, execute; a breach of the budget after execution is only logged
select(sql, allowed, connected, ans) ==
    IF validate(sql, allowed) # "ok"
    THEN [raised |-> TRUE, error |-> validate(sql, allowed), connected |-> connected,
          calls |-> {}]
    ELSE IF ~connected /\ ans.connect = "fail"
    THEN [raised |-> TRUE, error |-> "Upstream", connected |-> FALSE,
          calls |-> ConnectCalls(connected)]
    ELSE [raised |-> ans.execute = "fail",
          error |-> IF ans.execute = "fail" THEN "Upstream" ELSE "",
          connected |-> TRUE,
          calls |-> ConnectCalls(connected) \cup {Call("select", 0)}]

\* RunnerService._analyze_test_result: the status the returned rows give
_analyze_test_result(test, ans) == IF ans.rows = "clean" THEN "pass" ELSE "fail"

\* the tests the loop of _execute_tests_real does not skip
Selected(t) ==
    LET tests == _get_test_suite(t.suite).tests
    IN  {i \in DOMAIN tests : t.test_filter = {} \/ tests[i].name \in t.test_filter}

\* a loop that is left after its first test
next_test_none(t, i) == Len(_get_test_suite(t.suite).tests) + 1

\* the first selected test at or after i, or Len + 1
NextTest(t, i) ==
    IF \E k \in Selected(t) : k >= i
    THEN CHOOSE k \in Selected(t) : k >= i /\ \A m \in Selected(t) : m >= i => k <= m
    ELSE Len(_get_test_suite(t.suite).tests) + 1

\* the coroutine after the result of test t.idx is appended to test_results:
\* the loop goes on with the next selected test, whatever the result
Appended(t, result) ==
    [t EXCEPT !.test_results = Append(@, result),
              !.idx = NextTest(t, t.idx + 1),
              !.pc = IF NextTest(t, t.idx + 1) > Len(_get_test_suite(t.suite).tests)
                     THEN "disconnect" ELSE "loop"]

\* the calls of one connector operation, entered in the log; run 0 is a
\* connector used outside a run, its test the index of the table
LogCalls(r, i, calls) ==
    {[run |-> r, test |-> i, op |-> c.op, bytes |-> c.bytes] : c \in calls}

\* subscribers of the progress stream
MaxSubscribers == 2

\* events one subscriber is sent or has waiting
MaxEvents == 2

Subscribers == 1..MaxSubscribers

\* the run ids a client can name in GET /runs/{run_id}/stream: those of the
\* runner's runs and one that no run has
StreamRunIds == 1..(MaxRuns + 1)

\* a stream_run_updates generator that was never started
NoStream == [pc |-> "none", run |-> 0, since |-> "", delivered |-> << >>]

\* SSEService.__init__ and no subscriber
BusInit ==
    /\ connections = [r \in StreamRunIds |-> {}]
    /\ queue = [c \in Subscribers |-> << >>]
    /\ stream = [c \in Subscribers |-> NoStream]
    /\ published = [c \in Subscribers |-> << >>]

\* _format_sse_message(event_type, data): the event type and the text of data
Message(event, data) == [event |-> event, data |-> data]

\* a broadcast that reaches the queues of every run
broadcast_every_run(q, run_id, message) ==
    [c \in Subscribers |->
        IF \E r \in StreamRunIds : c \in connections[r] THEN Append(q[c], message) ELSE q[c]]

\* SSEService.broadcast_run_update: put_nowait on the queue of every
\* subscriber of the run; the queues after the call
broadcast_run_update(q, run_id, message) ==
    [c \in Subscribers |->
        IF c \in connections[run_id] THEN Append(q[c], message) ELSE q[c]]

\* SSEService.broadcast_run_status
broadcast_run_status(q, run_id, status) ==
    broadcast_run_update(q, run_id, Message("run_status", status))

\* SSEService.broadcast_run_completed
broadcast_run_completed(q, run_id) ==
    broadcast_run_update(q, run_id, Message("run_completed", ""))

\* no execute_suite call was made
NoResponse == [suite_id |-> "", outcome |-> "none"]

\* what an execute_suite call did: outcome is "SuiteNotFound" or
\* "ValidationFailed" for the ValueError it raised, else "accepted"
Response(suite_id, outcome) == [suite_id |-> suite_id, outcome |-> outcome]

\* AIAdapterInterface.compile_expression(request): TRUE when it raises.  It
\* reads request.expression, an attribute a dict does not have.
compile_expression(request) == request = "dict"

\* RunnerService._validate_tests: every test is compiled in turn, with a dict
\* as the request, and the first failure is raised as ValueError; validated
\* counts the tests compiled before that
_validate_tests(tests) ==
    LET failing == {i \in DOMAIN tests : compile_expression("dict")}
    IN  IF failing = {} THEN [raised |-> FALSE, validated |-> Len(tests)]
        ELSE [raised |-> TRUE,
              validated |-> (CHOOSE i \in failing : \A k \in failing : i <= k) - 1]

\* the prompts handed to generate; "" is the empty prompt
Prompts == {"", "sql", "explain"}

\* the seeds of a call: the adapter's default (ai_adapter_iface.py line 27)
\* and one given as seed=...
Seeds == {42, 7}

\* no call was made on a connector or an engine
NoEngineResult == [op |-> "none", outcome |-> "none"]

\* LocalOllamaAdapter.__init__ (the availability is not known yet), no text
\* was generated and no connector has executed a statement
EngineInit ==
    /\ is_available = "None"
    /\ generated = [k \in Prompts \X Seeds |-> {}]
    /\ executed = {}
    /\ engine_result = NoEngineResult

\* no sample value was handed to the redaction policy
RedactInit ==
    /\ column_name = << >>
    /\ value = << >>
    /\ redacted = <<"unset">>

\* no get_table_stats call was made
NoStats == [table |-> 0, outcome |-> "none"]

RunnerInit ==
    /\ runs = [r \in RunIds |-> NoRun]
    /\ results = [r \in RunIds |-> NoResults]
    /\ task = [r \in RunIds |-> NoTask]
    /\ connection = [r \in RunIds |-> FALSE]
    /\ wh_log = {}
    /\ stats_result = NoStats
    /\ scan_budget_bytes \in {0, 2}
    /\ now = 0
    /\ response = NoResponse

\* the run id execute_suite generates: one that is not in _runs yet
FreshRunId ==
    CHOOSE r \in RunIds : runs[r].status = "absent" /\ \A q \in 1..(r - 1) : runs[q].status # "absent"

\* the except branch of _execute_tests_real (lines 244-249)
RunFailed(run) == [run EXCEPT !.status = "failed", !.ended_at = now]

\* RunnerService.execute_suite up to its first suspension inside the test loop:
\* resolve the suite, create the RunSummary, and either validate (dry run) or
\* enter _execute_tests_real, which constructs the connector.  connector_ok
\* is whether SnowflakeConnector() finds its settings; budget_seconds is the
\* field of the request (NoneVal when the request has none), which the
\* coroutine holds in request and never reads.
ExecuteSuite(suite_id, dry_run, test_filter, connector_ok, budget_seconds) ==
    LET suite == _get_test_suite(suite_id)
        r     == FreshRunId
        t0    == [NoTask EXCEPT !.suite = suite_id, !.dry_run = dry_run,
                                !.test_filter = test_filter,
                                !.budget_seconds = budget_seconds]
        v     == _validate_tests(suite.tests)
    IN  /\ suite.found => \E q \in RunIds : runs[q].status = "absent"
        /\ IF ~suite.found
           THEN \* raise ValueError("Test suite ... not found"): nothing was stored
                /\ response' = Response(suite_id, "SuiteNotFound")
                /\ UNCHANGED <<runs, task>>
           ELSE IF dry_run
           THEN \* _validate_tests, then the run is completed; when it raises,
                \* the exception leaves execute_suite and the run stays as stored
                IF ~v.raised
                THEN /\ runs' = [runs EXCEPT ![r] =
                            [RunSummary(suite, now) EXCEPT !.status = "completed",
                                                           !.ended_at = now,
                                                           !.execution_time_ms = 100]]
                     /\ task' = [task EXCEPT ![r] =
                            [t0 EXCEPT !.pc = "done", !.validated = v.validated]]
                     /\ response' = Response(suite_id, "accepted")
                ELSE /\ runs' = [runs EXCEPT ![r] = RunSummary(suite, now)]
                     /\ task' = [task EXCEPT ![r] =
                            [t0 EXCEPT !.pc = "raised", !.validated = v.validated]]
                     /\ response' = Response(suite_id, "ValidationFailed")
           ELSE IF ~connector_ok
           THEN \* SnowflakeConnector() raises ValueError: except branch, run failed
                /\ runs' = [runs EXCEPT ![r] = RunFailed(RunSummary(suite, now))]
                /\ task' = [task EXCEPT ![r] = [t0 EXCEPT !.pc = "done"]]
                /\ response' = Response(suite_id, "accepted")
           ELSE /\ runs' = [runs EXCEPT ![r] = RunSummary(suite, now)]
                /\ task' = [task EXCEPT ![r] =
                       [t0 EXCEPT !.idx = NextTest(t0, 1),
                                  !.pc = IF NextTest(t0, 1) > Len(suite.tests)
                                         THEN "disconnect" ELSE "loop"]]
                /\ response' = Response(suite_id, "accepted")
        /\ UNCHANGED <<results, connection, wh_log, stats_result, scan_budget_bytes, now>>
        /\ UNCHANGED <<guardVars, busVars, redactVars, engineVars>>

\* the test the coroutine of run r is at
CurrentTest(r) == _get_test_suite(task[r].suite).tests[task[r].idx]

\* _execute_single_test, first half: _generate_test_sql and connector.explain.
\* Every exception is caught and becomes the test's error result.
TestExplain(r, ans) ==
    LET t    == task[r]
        test == CurrentTest(r)
        gen  == _generate_test_sql(test)
        ex   == explain(gen.sql, allowed_schemas, connection[r], scan_budget_bytes, ans)
    IN  /\ t.pc = "loop"
        /\ IF gen.raised
           THEN /\ task' = [task EXCEPT ![r] =
                       Appended(t, TestResult(test.name, "error", "Compile"))]
                /\ UNCHANGED <<connection, wh_log>>
           ELSE /\ connection' = [connection EXCEPT ![r] = ex.connected]
                /\ wh_log' = wh_log \cup LogCalls(r, t.idx, ex.calls)
                /\ task' = [task EXCEPT ![r] =
                       IF ex.raised
                       THEN Appended(t, TestResult(test.name, "error", ex.error))
                       ELSE [t EXCEPT !.pc = "select"]]
        /\ UNCHANGED <<runs, results, stats_result, scan_budget_bytes, now, response>>
        /\ UNCHANGED <<guardVars, busVars, redactVars, engineVars>>

\* _execute_single_test, second half: connector.select, _analyze_test_result,
\* _store_sample_rows when there are violations (written: whether the sample
\* file could be written) and the TestResult
TestSelect(r, ans, written) ==
    LET t    == task[r]
        test == CurrentTest(r)
        se   == select(_generate_test_sql(test).sql, allowed_schemas, connection[r], ans)
    IN  /\ t.pc = "select"
        /\ connection' = [connection EXCEPT ![r] = se.connected]
        /\ wh_log' = wh_log \cup LogCalls(r, t.idx, se.calls)
        /\ task' = [task EXCEPT ![r] =
               IF se.raised
               THEN Appended(t, TestResult(test.name, "error", se.error))
               ELSE IF _analyze_test_result(test, ans) = "fail" /\ ~written
               THEN Appended(t, TestResult(test.name, "error", "Artifact"))
               ELSE Appended(t, TestResult(test.name, _analyze_test_result(test, ans), ""))]
        /\ UNCHANGED <<runs, results, stats_result, scan_budget_bytes, now, response>>
        /\ UNCHANGED <<guardVars, busVars, redactVars, engineVars>>

\* the run summary as lines 220-229 of _execute_tests_real update it
Completed(run, test_results) ==
    [run EXCEPT !.status = "completed",
                !.ended_at = now,
                !.execution_time_ms = (now - run.started_at) * 1000,
                !.passed_tests = CountStatus(test_results, "pass"),
                !.failed_tests = CountStatus(test_results, "fail"),
                !.error_tests = CountStatus(test_results, "error"),
                !.skipped_tests = CountStatus(test_results, "skip")]

\* _execute_tests_real after the loop: disconnect, store the results, mark the
\* run completed and count the results (lines 213-229)
Finalize(r) ==
    /\ task[r].pc = "disconnect"
    /\ connection' = [connection EXCEPT ![r] = FALSE]
    /\ results' = [results EXCEPT ![r] = task[r].test_results]
    /\ runs' = [runs EXCEPT ![r] = Completed(runs[r], task[r].test_results)]
    /\ task' = [task EXCEPT ![r].pc = "artifacts"]
    /\ UNCHANGED <<wh_log, stats_result, scan_budget_bytes, now, response>>
    /\ UNCHANGED <<guardVars, busVars, redactVars, engineVars>>

\* _generate_artifacts (lines 231-233); written is whether the report files
\* could be written.  A failure reaches the except branch of lines 244-249.
GenerateArtifacts(r, written) ==
    /\ task[r].pc = "artifacts"
    /\ runs' = [runs EXCEPT ![r] =
           IF written THEN [@ EXCEPT !.artifacts = TRUE] ELSE RunFailed(@)]
    /\ task' = [task EXCEPT ![r].pc = "done"]
    /\ UNCHANGED <<results, connection, wh_log, stats_result, scan_budget_bytes, now, response>>
    /\ UNCHANGED <<guardVars, busVars, redactVars, engineVars>>

\* cancel_run without the check of the status
cancel_run_any_status(all, run_id) ==
    IF run_id \in RunIds /\ all[run_id].status # "absent"
    THEN [all EXCEPT ![run_id].status = "cancelled", ![run_id].ended_at = now]
    ELSE all

\* RunnerService.cancel_run: _runs after the call
cancel_run(all, run_id) ==
    IF run_id \in RunIds /\ all[run_id].status = "running"
    THEN [all EXCEPT ![run_id].status = "cancelled", ![run_id].ended_at = now]
    ELSE all

\* a cancel request for run_id; MaxRuns + 1 is an id no run has
CancelRun(run_id) ==
    /\ runs' = cancel_run(runs, run_id)
    /\ UNCHANGED <<results, task, connection, wh_log, stats_result, scan_budget_bytes, now, response>>
    /\ UNCHANGED <<guardVars, busVars, redactVars, engineVars>>

\* SnowflakeConnector.get_table_stats on a connector of its own: select(count_sql)
GetTableStats(table, ans) ==
    LET se == select(count_sql(Datasets[table]), allowed_schemas, FALSE, ans)
    IN  /\ wh_log' = wh_log \cup LogCalls(0, table, se.calls)
        /\ stats_result' = [table |-> table, outcome |-> IF se.raised THEN se.error ELSE "ok"]
        /\ UNCHANGED <<runs, results, task, connection, scan_budget_bytes, now, response>>
        /\ UNCHANGED <<guardVars, busVars, redactVars, engineVars>>

\* time passes
Tick ==
    /\ now < MaxClock
    /\ now' = now + 1
    /\ UNCHANGED <<runs, results, task, connection, wh_log, stats_result, scan_budget_bytes, response>>
    /\ UNCHANGED <<guardVars, busVars, redactVars, engineVars>>

Next ==
    \/ \E suite_id \in SuiteIds, dry_run \in BOOLEAN,
          test_filter \in {{}, {"not_null_order_id"}}, connector_ok \in BOOLEAN :
            ExecuteSuite(suite_id, dry_run, test_filter, connector_ok, NoneVal)
    \/ \E r \in RunIds, ans \in ExplainAnswers : TestExplain(r, ans)
    \/ \E r \in RunIds, ans \in SelectAnswers, written \in BOOLEAN : TestSelect(r, ans, written)
    \/ \E r \in RunIds : Finalize(r)
    \/ \E r \in RunIds, written \in BOOLEAN : GenerateArtifacts(r, written)
    \/ \E run_id \in 1..(MaxRuns + 1) : CancelRun(run_id)
    \/ \E table \in DOMAIN Datasets, ans \in SelectAnswers : GetTableStats(table, ans)
    \/ Tick

\* the guardrail specification: texts are composed and validated while the
\* orchestrator is idle
InitGuard ==
    /\ GuardInit
    /\ runs = [r \in RunIds |-> NoRun]
    /\ results = [r \in RunIds |-> NoResults]
    /\ task = [r \in RunIds |-> NoTask]
    /\ connection = [r \in RunIds |-> FALSE]
    /\ wh_log = {}
    /\ stats_result = NoStats
    /\ scan_budget_bytes = 0
    /\ now = 0
    /\ response = NoResponse
    /\ BusInit
    /\ RedactInit
    /\ EngineInit

SpecGuard == InitGuard /\ [][GuardNext]_vars

Init == GuardInit /\ RunnerInit /\ BusInit /\ RedactInit /\ EngineInit

\* the orchestrator specification: no subscriber
Spec == Init /\ [][Next]_vars

\* stream_run_updates up to its loop: a queue is created and registered for the
\* run, and the run state is yielded when _get_run_state finds the run in the
\* database (in_store); since is the status the run had at that time
Subscribe(c, r, in_store) ==
    /\ stream[c].pc = "none"
    /\ connections' = [connections EXCEPT ![r] = @ \cup {c}]
    /\ queue' = [queue EXCEPT ![c] = << >>]
    /\ stream' = [stream EXCEPT ![c] =
           [pc |-> "open", run |-> r,
            since |-> IF r \in RunIds THEN runs[r].status ELSE "absent",
            delivered |-> IF in_store THEN <<Message("run_state", "")>> ELSE << >>]]
    /\ published' = [published EXCEPT ![c] = << >>]
    /\ UNCHANGED <<guardVars, runnerVars, redactVars, engineVars>>

\* a finally block that drops the run's whole list of queues
removed_with_run(c) == [connections EXCEPT ![stream[c].run] = {}]

\* the finally block of stream_run_updates: the queue is removed
Removed(c) == [connections EXCEPT ![stream[c].run] = @ \ {c}]

\* the messages callers broadcast: a status change, the completion, and test
\* results, one of them of a test whose name holds the text run_completed
Broadcasts ==
    { Message("run_status", "cancelled"), Message("run_completed", ""),
      Message("test_result", "pass"), Message("test_result", "run_completed") }

\* a caller of the service's broadcast methods; nothing in the repository
\* calls them, so the caller is outside it.  published records the broadcast
\* for every stream of the run that is open at that time
Publish(r, message) ==
    /\ \A c \in connections[r] : Len(queue[c]) + Len(stream[c].delivered) < MaxEvents
    /\ queue' = broadcast_run_update(queue, r, message)
    /\ published' = [c \in Subscribers |->
                        IF stream[c].pc = "open" /\ stream[c].run = r
                        THEN Append(published[c], message) ELSE published[c]]
    /\ UNCHANGED <<connections, stream, guardVars, runnerVars, redactVars, engineVars>>

\* the test '"run_completed" in message' of the loop, on the text that
\* _format_sse_message made of the event type and the data
holds_run_completed(message) ==
    message.event = "run_completed" \/ message.data = "run_completed"

\* the loop of stream_run_updates, queue.get() returns: the message is
\* yielded, and the stream ends when the message holds "run_completed"
Deliver(c) ==
    /\ stream[c].pc = "open"
    /\ Len(queue[c]) > 0
    /\ queue' = [queue EXCEPT ![c] = Tail(@)]
    /\ stream' = [stream EXCEPT ![c].delivered = Append(@, Head(queue[c])),
                                ![c].pc = IF holds_run_completed(Head(queue[c]))
                                          THEN "closed" ELSE "open"]
    /\ connections' = IF holds_run_completed(Head(queue[c]))
                      THEN Removed(c) ELSE connections
    /\ UNCHANGED <<published, guardVars, runnerVars, redactVars, engineVars>>

\* the loop of stream_run_updates, the wait times out: a heartbeat is yielded
Heartbeat(c) ==
    /\ stream[c].pc = "open"
    /\ Len(queue[c]) = 0
    /\ Len(stream[c].delivered) < MaxEvents
    /\ stream' = [stream EXCEPT ![c].delivered = Append(@, Message("heartbeat", ""))]
    /\ UNCHANGED <<connections, queue, published, guardVars, runnerVars, redactVars, engineVars>>

\* the subscriber goes away: CancelledError in the generator, then finally
Disconnect(c) ==
    /\ stream[c].pc = "open"
    /\ stream' = [stream EXCEPT ![c].pc = "gone"]
    /\ connections' = Removed(c)
    /\ UNCHANGED <<queue, published, guardVars, runnerVars, redactVars, engineVars>>

\* a warehouse that serves every call
ServedExplain == [connect |-> "ok", execute |-> "ok", bytes |-> 1]

ServedSelect == [connect |-> "ok", execute |-> "ok", rows |-> "clean"]

\* the client that follows a run while the orchestrator executes it
Followers == {1}

NextBus ==
    \/ \E suite_id \in SuiteIds, dry_run \in BOOLEAN, connector_ok \in BOOLEAN :
            ExecuteSuite(suite_id, dry_run, {}, connector_ok, NoneVal)
    \/ \E r \in RunIds : TestExplain(r, ServedExplain)
    \/ \E r \in RunIds : TestSelect(r, ServedSelect, TRUE)
    \/ \E r \in RunIds : Finalize(r)
    \/ \E r \in RunIds, written \in BOOLEAN : GenerateArtifacts(r, written)
    \/ \E run_id \in 1..(MaxRuns + 1) : CancelRun(run_id)
    \/ \E c \in Followers, r \in StreamRunIds, in_store \in BOOLEAN : Subscribe(c, r, in_store)
    \/ \E r \in StreamRunIds, message \in Broadcasts : Publish(r, message)
    \/ \E c \in Followers : Deliver(c)
    \/ \E c \in Followers : Heartbeat(c)
    \/ \E c \in Followers : Disconnect(c)

\* the orchestrator with subscribers of the progress stream; the loop of an
\* open stream keeps running
SpecBus ==
    /\ Init
    /\ [][NextBus]_vars
    /\ \A c \in Subscribers : WF_vars(Deliver(c)) /\ WF_vars(Heartbeat(c))

\* the progress stream with all its clients: a run of orders_basic is started
\* and cancelled, clients subscribe to any run id, callers broadcast, streams
\* deliver
NextStream ==
    \/ ExecuteSuite("orders_basic", FALSE, {}, TRUE, NoneVal)
    \/ \E run_id \in RunIds : CancelRun(run_id)
    \/ \E c \in Subscribers, r \in StreamRunIds, in_store \in BOOLEAN : Subscribe(c, r, in_store)
    \/ \E r \in StreamRunIds, message \in Broadcasts : Publish(r, message)
    \/ \E c \in Subscribers : Deliver(c)
    \/ \E c \in Subscribers : Heartbeat(c)
    \/ \E c \in Subscribers : Disconnect(c)

SpecStream == InitGuard /\ [][NextStream]_vars

(***************************************************************************)
(* Orchestrator properties (C4 - C10).                                     *)
(***************************************************************************)

\* the SQL text a logged warehouse call was made for
SqlOfCall(e) ==
    IF e.run = 0 THEN count_sql(Datasets[e.test])
    ELSE _generate_test_sql(_get_test_suite(task[e.run].suite).tests[e.test]).sql

\* the test definition the k-th result of run r belongs to
TestOfResult(r, k) ==
    LET tests == _get_test_suite(task[r].suite).tests
    IN  tests[CHOOSE i \in DOMAIN tests : tests[i].name = task[r].test_results[k].test_name]

\* the index in the suite of the test the k-th result of run r belongs to
IndexOfResult(r, k) ==
    LET tests == _get_test_suite(task[r].suite).tests
    IN  CHOOSE i \in DOMAIN tests : tests[i].name = task[r].test_results[k].test_name

\* C4: SQL the guardrail rejects never reaches the warehouse through explain or
\* select: no connect, explain or select call is ever made for it, the test
\* that issued it is recorded with status error and the guardrail's reason,
\* and a direct get_table_stats call on it fails with that reason.
C4_RejectedSqlNeverReachesWarehouse ==
    /\ \A e \in wh_log : ValidatedSql[SqlOfCall(e)] = "ok"
    /\ \A r \in RunIds : \A k \in DOMAIN task[r].test_results :
          LET gen == _generate_test_sql(TestOfResult(r, k))
          IN  (~gen.raised /\ ValidatedSql[gen.sql] # "ok")
                 => /\ task[r].test_results[k].status = "error"
                    /\ task[r].test_results[k].error = ValidatedSql[gen.sql]
    /\ (stats_result.outcome # "none"
          /\ ValidatedSql[count_sql(Datasets[stats_result.table])] # "ok")
         => stats_result.outcome = ValidatedSql[count_sql(Datasets[stats_result.table])]

\* C4 witness: a test with rejected SQL has been executed and recorded as an
\* error, a get_table_stats call on a rejected table name has failed, and the
\* warehouse has served other calls.
C4_Witness ==
    /\ \E r \in RunIds : \E k \in DOMAIN task[r].test_results :
          /\ ~_generate_test_sql(TestOfResult(r, k)).raised
          /\ ValidatedSql[_generate_test_sql(TestOfResult(r, k)).sql] # "ok"
          /\ task[r].test_results[k].status = "error"
    /\ stats_result.outcome = "MultipleStatements"
    /\ \E e \in wh_log : e.op = "select"

\* C5 as the specification states it: once a run is completed, failed or
\* cancelled, no step changes any field of it.
C5_TerminalRunsNeverChange ==
    [][\A r \in RunIds : runs[r].status \in TerminalStatuses => runs'[r] = runs[r]]_vars

\* C6 as the specification states it: once a run is cancelled it stays
\* cancelled, and when its next test has not been started the coroutine neither
\* starts it nor records any result.
C6_NoTestStartsAfterCancel ==
    [][\A r \in RunIds :
          runs[r].status = "cancelled"
             => /\ runs'[r].status = "cancelled"
                /\ task[r].pc = "loop" => task'[r] = task[r]]_vars

\* C7: cancel_run changes a run only when its status is running, and then sets
\* the status to cancelled and touches no other run; on a run that is
\* cancelled, completed, failed or unknown it changes nothing, the end time
\* included; a second cancel changes nothing.
C7_CancelOnlyActsOnRunning ==
    \A run_id \in 1..(MaxRuns + 1) :
        /\ (run_id \in RunIds /\ runs[run_id].status = "running")
             => /\ cancel_run(runs, run_id)[run_id].status = "cancelled"
                /\ \A q \in RunIds \ {run_id} : cancel_run(runs, run_id)[q] = runs[q]
        /\ ~(run_id \in RunIds /\ runs[run_id].status = "running")
             => cancel_run(runs, run_id) = runs
        /\ cancel_run(cancel_run(runs, run_id), run_id) = cancel_run(runs, run_id)

\* C7 witness: a run was cancelled at an earlier time than now and a run id
\* that no run has exists, so a repeated cancel would show in the end time.
C7_Witness ==
    \E r \in RunIds : runs[r].status = "cancelled" /\ runs[r].ended_at < now

\* C9: with a scan budget configured, a test whose EXPLAIN estimated more bytes
\* than the budget never has a select issued for it and is recorded with
\* status error and the budget error.
C9_OverBudgetTestNeverSelected ==
    scan_budget_bytes > 0 =>
        \A e \in wh_log :
            (e.run # 0 /\ e.op = "explain" /\ e.bytes > scan_budget_bytes)
               => /\ ~\E f \in wh_log : f.run = e.run /\ f.test = e.test /\ f.op = "select"
                  /\ \E k \in DOMAIN task[e.run].test_results :
                        /\ IndexOfResult(e.run, k) = e.test
                        /\ task[e.run].test_results[k].status = "error"
                        /\ task[e.run].test_results[k].error = "BudgetExceeded"

\* C9 witness: a budget is configured, one test of a run went over it and a
\* later test of the same run was selected from the warehouse.
C9_Witness ==
    /\ scan_budget_bytes > 0
    /\ \E e \in wh_log, f \in wh_log :
          /\ e.run # 0 /\ e.op = "explain" /\ e.bytes > scan_budget_bytes
          /\ f.run = e.run /\ f.op = "select" /\ f.test > e.test

\* C10 as the specification states it: a run whose coroutine has returned after
\* the test loop, with some test recorded as error, is completed.
C10_RunWithTestErrorsEndsCompleted ==
    \A r \in RunIds :
        (task[r].pc = "done" /\ \E k \in DOMAIN task[r].test_results :
                                    task[r].test_results[k].status = "error")
           => runs[r].status = "completed"

\* C8 as the specification states it: a subscriber that was subscribed to a
\* run while it was running, and whose run is cancelled, is eventually sent a
\* run_status event with status cancelled and its stream is then closed by
\* the service (unless the subscriber went away by itself).
C8_CancelReachesSubscribers ==
    \A c \in Subscribers :
        (stream[c].pc = "open" /\ stream[c].since = "running"
            /\ runs[stream[c].run].status = "cancelled")
          ~> \/ stream[c].pc = "gone"
             \/ /\ stream[c].pc = "closed"
                /\ \E k \in DOMAIN stream[c].delivered :
                      stream[c].delivered[k] = Message("run_status", "cancelled")

(***************************************************************************)
(* Progress stream properties (C11 - C15).                                 *)
(***************************************************************************)

\* C11 as the specification states it: the first event a stream delivers is
\* the run_state snapshot; no heartbeat, test_result, run_status or
\* run_completed event comes before it.
C11_FirstEventIsRunState ==
    \A c \in Subscribers :
        Len(stream[c].delivered) > 0 => stream[c].delivered[1].event = "run_state"

\* the events of a stream that came through its queue: all but the snapshot
\* and the heartbeats, which the stream makes itself
Pushed(c) ==
    SelectSeq(stream[c].delivered, LAMBDA m : m.event \notin {"run_state", "heartbeat"})

\* C12: what a subscriber has been delivered through its queue, followed by
\* what still waits in the queue, is exactly the sequence of messages that
\* were broadcast for its run while its stream was open: same order, nothing
\* twice, nothing of another run.
C12_FifoPerRun ==
    \A c \in Subscribers : Pushed(c) \o queue[c] = published[c]

\* C12 witness: a subscriber has been delivered two different broadcasts of its
\* run, while a subscriber of another run id was sent a broadcast of its own.
C12_Witness ==
    \E c, d \in Subscribers :
        /\ Len(Pushed(c)) = 2
        /\ Pushed(c)[1] # Pushed(c)[2]
        /\ stream[d].run # stream[c].run
        /\ Len(published[d]) > 0

\* C13 as the specification states it: nothing is delivered on a stream after
\* a run_completed event, and a stream the service has ended (not one the
\* subscriber cancelled) has a run_completed event as its last delivery; an
\* event of any other type does not end it, whatever its data.
C13_StreamEndsOnlyOnRunCompleted ==
    \A c \in Subscribers :
        /\ \A k \in 1..(Len(stream[c].delivered) - 1) :
               stream[c].delivered[k].event # "run_completed"
        /\ stream[c].pc = "closed" =>
               stream[c].delivered[Len(stream[c].delivered)].event = "run_completed"

\* C14: a step in which a subscriber goes away changes no run and no
\* coroutine of the orchestrator, and leaves the stream, the queue and the
\* registration of every other subscriber as they were; and every open stream
\* is registered under its run id, so broadcasts for the run keep reaching it.
C14_DisconnectClosesOnlyThatStream ==
    /\ [](\A c \in Subscribers :
             stream[c].pc = "open" => c \in connections[stream[c].run])
    /\ [][\A c \in Subscribers :
             (stream[c].pc = "open" /\ stream'[c].pc = "gone") =>
                 /\ runs' = runs
                 /\ task' = task
                 /\ \A d \in Subscribers \ {c} :
                        /\ stream'[d] = stream[d]
                        /\ queue'[d] = queue[d]
                        /\ \A r \in StreamRunIds :
                               d \in connections'[r] <=> d \in connections[r]]_vars

\* C14 witness: one subscriber of a running run has gone away, and another
\* subscriber of the same run, still open, has been sent and delivered more
\* broadcasts than the one that left.
C14_Witness ==
    \E c, d \in Subscribers :
        /\ stream[c].pc = "gone"
        /\ stream[d].pc = "open"
        /\ stream[d].run = stream[c].run
        /\ stream[c].run \in RunIds
        /\ runs[stream[c].run].status = "running"
        /\ Len(published[d]) > Len(published[c])
        /\ queue[d] = << >>

\* C15 as the specification states it: the events waiting for one subscriber
\* never exceed a fixed bound, broadcasts to a full buffer being dropped.
\* Stated for the bound MaxEvents - 1, the largest this model could tell from
\* no bound at all.
C15_BufferBounded ==
    \A c \in Subscribers : Len(queue[c]) < MaxEvents

(***************************************************************************)
(* PII redaction (PIIRedactionPolicy).  A sample value is None or the      *)
(* characters of str(value); a column name is a sequence of characters.    *)
(***************************************************************************)

\* longest sample value, in characters
MaxValueLen == 9

\* the characters sample values are made of: a letter, the mask character
\* and a digit
ValueChars == {"a", "*", "1"}

\* the value None
NoneValue == <<"None">>

\* redacted before _redact_column_value has run
Unset == <<"unset">>

\* column names of sample rows
Columns ==
    { <<"e","m","a","i","l">>,
      <<"U","s","e","r","N","a","m","e">>,
      <<"s","o","c","i","a","l","_","s","e","c","u","r","i","t","y">>,
      <<"a","m","o","u","n","t">> }

\* pii_column_patterns: r'.*email.*' is <<email>>, r'.*social.*security.*'
\* is <<social, security>>; re.IGNORECASE is met by comparing in upper case
pii_column_patterns ==
    { << <<"E","M","A","I","L">> >>,
      << <<"P","H","O","N","E">> >>,
      << <<"S","S","N">> >>,
      << <<"S","O","C","I","A","L">>, <<"S","E","C","U","R","I","T","Y">> >>,
      << <<"C","R","E","D","I","T">>, <<"C","A","R","D">> >>,
      << <<"A","D","D","R","E","S","S">> >>,
      << <<"N","A","M","E">> >>,
      << <<"D","O","B">> >>,
      << <<"B","I","R","T","H">>, <<"D","A","T","E">> >> }

\* pattern.match(column_name) for r'.*w1.*' or r'.*w1.*w2.*': the words occur
\* in this order without overlapping
MatchesColumnPattern(name, words) ==
    /\ FindFrom(name, 1, words[1]) > 0
    /\ Len(words) > 1 =>
           FindFrom(name, FindFrom(name, 1, words[1]) + Len(words[1]), words[2]) > 0

\* PIIRedactionPolicy._is_pii_column
_is_pii_column(name) ==
    \E words \in pii_column_patterns : MatchesColumnPattern(Upper(name), words)

\* "*" * n
Stars(n) == [i \in 1..n |-> "*"]

\* PIIRedactionPolicy._mask_value
_mask_value(v) ==
    IF Len(v) <= 4 THEN Stars(Len(v))
    ELSE IF Len(v) <= 8
    THEN Slice(v, 1, 2) \o Stars(Len(v) - 4) \o Slice(v, Len(v) - 1, Len(v))
    ELSE Slice(v, 1, 3) \o Stars(Len(v) - 6) \o Slice(v, Len(v) - 2, Len(v))

\* index after the match of \d{n} at i, or 0 (i = 0: no match before)
DigitsEnd(text, i, n) ==
    IF i > 0 /\ i + n - 1 <= Len(text) /\ \A k \in i..(i + n - 1) : text[k] \in DigitChars
    THEN i + n ELSE 0

\* index after the match of [seps]? at i
OptionalSep(text, i, seps) ==
    IF i > 0 /\ i <= Len(text) /\ text[i] \in seps THEN i + 1 ELSE i

\* index after the match at i of \b\d{a}[seps]?\d{b}[seps]?\d{c}\b, or 0
DigitGroupsAt(text, i, a, b, c, seps) ==
    IF (i = 1 \/ ~IsWordChar(text[i - 1]))
         /\ DigitsEnd(text, OptionalSep(text,
                DigitsEnd(text, OptionalSep(text, DigitsEnd(text, i, a), seps), b), seps), c) > 0
         /\ (DigitsEnd(text, OptionalSep(text,
                DigitsEnd(text, OptionalSep(text, DigitsEnd(text, i, a), seps), b), seps), c)
               > Len(text)
             \/ ~IsWordChar(text[DigitsEnd(text, OptionalSep(text,
                   DigitsEnd(text, OptionalSep(text, DigitsEnd(text, i, a), seps), b), seps), c)]))
    THEN DigitsEnd(text, OptionalSep(text,
             DigitsEnd(text, OptionalSep(text, DigitsEnd(text, i, a), seps), b), seps), c)
    ELSE 0

\* pii_patterns, in the order of the dict: the phone and ssn patterns.  The
\* email, credit_card and ip_address patterns need '@', sixteen digits or
\* '.', which no value over ValueChars holds.
pii_patterns ==
    << [type |-> "PHONE", a |-> 3, b |-> 3, c |-> 4, seps |-> {"-", "."}],
       [type |-> "SSN", a |-> 3, b |-> 2, c |-> 4, seps |-> {"-"}] >>

\* places where the pattern matches
PatternMatches(text, pat) ==
    {i \in 1..Len(text) : DigitGroupsAt(text, i, pat.a, pat.b, pat.c, pat.seps) > 0}

\* pattern.sub("[REDACTED_<TYPE>]", text): every match, from the left, is
\* replaced by the marker
RECURSIVE PatternSub(_, _)
PatternSub(text, pat) ==
    IF PatternMatches(text, pat) = {} THEN text
    ELSE LET i == CHOOSE k \in PatternMatches(text, pat) :
                      \A m \in PatternMatches(text, pat) : k <= m
         IN  Slice(text, 1, i - 1) \o <<"[REDACTED_", pat.type, "]">>
               \o PatternSub(
                    Slice(text, DigitGroupsAt(text, i, pat.a, pat.b, pat.c, pat.seps), Len(text)),
                    pat)

\* PIIRedactionPolicy._redact_column_value
_redact_column_value(name, v) ==
    IF v = NoneValue THEN NoneValue
    ELSE IF _is_pii_column(name) THEN _mask_value(v)
    ELSE IF \E n \in DOMAIN pii_patterns : PatternMatches(v, pii_patterns[n]) # {}
    THEN PatternSub(v, pii_patterns[CHOOSE n \in DOMAIN pii_patterns :
                          /\ PatternMatches(v, pii_patterns[n]) # {}
                          /\ \A m \in 1..(n - 1) : PatternMatches(v, pii_patterns[m]) = {}])
    ELSE v

\* a sample row's column and value reach the policy
InitRedact ==
    /\ GuardInit
    /\ runs = [r \in RunIds |-> NoRun]
    /\ results = [r \in RunIds |-> NoResults]
    /\ task = [r \in RunIds |-> NoTask]
    /\ connection = [r \in RunIds |-> FALSE]
    /\ wh_log = {}
    /\ stats_result = NoStats
    /\ scan_budget_bytes = 0
    /\ now = 0
    /\ response = NoResponse
    /\ BusInit
    /\ column_name \in Columns
    /\ value \in {NoneValue, << >>}
    /\ redacted = Unset
    /\ EngineInit

\* the warehouse returned one more character of the value
AppendChar(ch) ==
    /\ redacted = Unset
    /\ value # NoneValue
    /\ Len(value) < MaxValueLen
    /\ value' = Append(value, ch)
    /\ UNCHANGED <<column_name, redacted>>
    /\ UNCHANGED <<guardVars, runnerVars, busVars, engineVars>>

\* redact_sample_data with the policy enabled, on this column of the row
RedactColumnValue ==
    /\ redacted = Unset
    /\ redacted' = _redact_column_value(column_name, value)
    /\ UNCHANGED <<column_name, value>>
    /\ UNCHANGED <<guardVars, runnerVars, busVars, engineVars>>

NextRedact ==
    \/ \E ch \in ValueChars : AppendChar(ch)
    \/ RedactColumnValue

SpecRedact == InitRedact /\ [][NextRedact]_vars

\* C16 as the specification states it: a value of a column the policy
\* detects as PII, unless it is None, comes out of the redaction different
\* from what went in.
C16_PiiValueChanged ==
    (redacted # Unset /\ _is_pii_column(column_name) /\ value # NoneValue)
        => redacted # value

(***************************************************************************)
(* Orchestrator properties (C17, C18).                                     *)
(***************************************************************************)

\* C17 as the specification states it: in a dry run every test of the suite is
\* compiled, no connection is opened and no explain or select is issued, and
\* when all tests compiled the run is completed.
C17_DryRunCompilesEveryTest ==
    \A r \in RunIds :
        (task[r].pc # "none" /\ task[r].dry_run) =>
            /\ task[r].validated = Len(_get_test_suite(task[r].suite).tests)
            /\ ~connection[r]
            /\ ~\E e \in wh_log : e.run = r
            /\ runs[r].status = "completed"

\* C18: a call of execute_suite with a suite id the store does not know ends
\* with the suite-not-found error and only such calls do; the step changes no
\* run, no stored result, no coroutine, no connection and adds no warehouse
\* call.
C18_UnknownSuiteCreatesNothing ==
    [][response' # response =>
          /\ response'.outcome = "SuiteNotFound" <=> response'.suite_id \notin DOMAIN SuiteStore
          /\ response'.outcome = "SuiteNotFound" =>
                 /\ runs' = runs
                 /\ results' = results
                 /\ task' = task
                 /\ connection' = connection
                 /\ wh_log' = wh_log]_vars

\* C18 witness: the latest execute_suite call named an unknown suite and
\* failed, at a time when a run of an earlier call was stored and had made
\* warehouse calls.
C18_Witness ==
    /\ response.outcome = "SuiteNotFound"
    /\ \E r \in RunIds : runs[r].status = "running" /\ \E e \in wh_log : e.run = r

(***************************************************************************)
(* Guardrail properties (C19, C20).                                        *)
(***************************************************************************)

\* texts of comments
CommentTexts == { <<"x">>, <<"d","r","o","p">>, <<"a",";","b">> }

\* a text without comment delimiters, so that what is put before or after it
\* stands outside any comment of its own
NoCommentIn(text) ==
    /\ FindFrom(text, 1, <<"-","-">>) = 0
    /\ FindFrom(text, 1, <<"/","*">>) = 0
    /\ FindFrom(text, 1, <<"*","/">>) = 0

\* the text with a comment or whitespace added before or after it: a
\* trailing line comment with and without its final newline, a leading line
\* comment, a trailing and a leading block comment, blanks and newlines
CommentVariants(text) ==
    { text \o <<" ","-","-">> \o c : c \in CommentTexts }
      \cup { text \o <<" ","-","-">> \o c \o <<"\n">> : c \in CommentTexts }
      \cup { <<"-","-">> \o c \o <<"\n">> \o text : c \in CommentTexts }
      \cup { text \o <<" ","/","*">> \o c \o <<"*","/">> : c \in CommentTexts }
      \cup { <<"/","*">> \o c \o <<"*","/"," ">> \o text : c \in CommentTexts }
      \cup { <<" ">> \o text, text \o <<" ">>, <<"\n">> \o text, text \o <<"\n">> }

\* C19 as the specification states it: when a text without comments is
\* accepted, the same text with a comment or whitespace added before or
\* after it is accepted too.
C19_AcceptanceIgnoresComments ==
    (Accepted /\ NoCommentIn(sql_text)) =>
        \A t \in CommentVariants(sql_text) : _validate_sql(t, allowed_schemas) = "ok"

\* pieces of statements that name tables
SchemaPieces ==
    { <<"S","E","L","E","C","T"," ">>,
      <<"F","R","O","M"," ">>,
      <<"J","O","I","N"," ">>,
      <<"A",".","B",".","T">>,
      <<"X",".","Y",".","T">>,
      <<" ">> }

\* values of DFG_ALLOWED_SCHEMAS after _parse_allowed_schemas: unset, and A.B
AllowLists == { {}, { <<"A",".","B">> } }

\* a connector with or without an allowlist, and a statement not yet written
InitSchema ==
    /\ sql_text = << >>
    /\ npieces = 0
    /\ allowed_schemas \in AllowLists
    /\ verdict = "none"
    /\ runs = [r \in RunIds |-> NoRun]
    /\ results = [r \in RunIds |-> NoResults]
    /\ task = [r \in RunIds |-> NoTask]
    /\ connection = [r \in RunIds |-> FALSE]
    /\ wh_log = {}
    /\ stats_result = NoStats
    /\ scan_budget_bytes = 0
    /\ now = 0
    /\ response = NoResponse
    /\ BusInit
    /\ RedactInit
    /\ EngineInit

SchemaNext ==
    \/ \E p \in SchemaPieces : AppendPiece(p)
    \/ ValidateSql

SpecSchema == InitSchema /\ [][SchemaNext]_vars

\* the db.schema prefixes of the db.schema.table references that follow FROM
\* or JOIN
FromJoinSchemas(sql) ==
    findall_schema(Upper(Normalize(sql)), <<"F","R","O","M">>)
      \cup findall_schema(Upper(Normalize(sql)), <<"J","O","I","N">>)

\* C20 as the specification states it: a statement that passes the other
\* checks is rejected as schema-not-allowed exactly when an allowlist is
\* configured and a db.schema.table reference after FROM or JOIN has a
\* db.schema prefix outside it.
C20_SchemaRejectedIffFromJoinOutside ==
    verdict \in {"ok", "SchemaNotAllowed"} =>
        (verdict = "SchemaNotAllowed" <=>
            /\ allowed_schemas # {}
            /\ \E ref \in FromJoinSchemas(sql_text) : ref \notin allowed_schemas)


\* ---------------------------------------------------------------------------
\* The time budget of a run request

\* the budget_seconds a request carries: none, or a budget of no seconds
BudgetValues == {NoneVal, 0}

\* a run has used more wall-clock time than its request allows
BudgetExhausted(r) ==
    /\ task[r].budget_seconds # NoneVal
    /\ now - runs[r].started_at > task[r].budget_seconds

\* the orchestrator with requests that carry a budget, a warehouse that
\* answers and files that can be written
NextBudget ==
    \/ \E dry_run \in BOOLEAN, test_filter \in {{}, {"not_null_order_id"}},
          budget_seconds \in BudgetValues :
            ExecuteSuite("orders_basic", dry_run, test_filter, TRUE, budget_seconds)
    \/ \E r \in RunIds, ans \in ExplainAnswers : TestExplain(r, ans)
    \/ \E r \in RunIds, ans \in SelectAnswers : TestSelect(r, ans, TRUE)
    \/ \E r \in RunIds : Finalize(r)
    \/ \E r \in RunIds : GenerateArtifacts(r, TRUE)
    \/ \E run_id \in RunIds : CancelRun(run_id)
    \/ Tick

SpecBudget == InitGuard /\ [][NextBudget]_vars

\* C21: once a run has used more wall-clock time than its request's
\* budget_seconds, the orchestrator starts no further test: a step taken
\* while the coroutine is between two tests and the budget is exhausted makes
\* no warehouse call, records no further test result and begins no test.
C21_NoTestStartsAfterBudget ==
    [][\A r \in RunIds :
         (task[r].pc = "loop" /\ BudgetExhausted(r)) =>
            /\ wh_log' = wh_log
            /\ task'[r].test_results = task[r].test_results
            /\ task'[r].pc # "select"]_vars


\* ---------------------------------------------------------------------------
\* Results and completion

\* the statuses a recorded test result can have
ResultStatuses == {"pass", "fail", "error", "skip"}

\* the results recorded for run r that belong to the test named name
ResultsOf(r, name) == {k \in DOMAIN results[r] : results[r][k].test_name = name}

\* C22: a run becomes completed only after the results of all its executed
\* tests are recorded: in every state where a run that executed tests is
\* completed, its coroutine has left the test loop, _results holds what the
\* loop collected, and each executed test has exactly one recorded result,
\* whose status is pass, fail, error or skip; results are recorded for no
\* other test.
C22_CompletedAfterAllResults ==
    \A r \in RunIds :
        (runs[r].status = "completed" /\ ~task[r].dry_run) =>
            LET tests == _get_test_suite(task[r].suite).tests
            IN  /\ task[r].pc \in {"artifacts", "done"}
                /\ results[r] # NoResults
                /\ results[r] = task[r].test_results
                /\ \A i \in DOMAIN tests :
                      Cardinality(ResultsOf(r, tests[i].name))
                          = IF i \in Selected(task[r]) THEN 1 ELSE 0
                /\ \A k \in DOMAIN results[r] : results[r][k].status \in ResultStatuses

\* C22 witness: a completed run of the three tests of orders_basic, one of
\* which ended in error and one of which failed
C22_Witness ==
    \E r \in RunIds :
        /\ runs[r].status = "completed"
        /\ ~task[r].dry_run
        /\ Len(results[r]) = 3
        /\ runs[r].error_tests = 1
        /\ runs[r].failed_tests = 1


\* ---------------------------------------------------------------------------
\* Events of a run

\* the positions in the broadcasts stream c was open for that hold an event
\* of the given type
PublishedOf(c, event) == {k \in DOMAIN published[c] : published[c][k].event = event}

\* C23: for a run the orchestrator executes, exactly one run_completed event
\* is published when the run is finalized, after all test_result events: a
\* stream that was opened while the run was running and is open when the run
\* is completed has had exactly one run_completed event broadcast to it, as
\* the last of its events, and test_result events before it.
C23_RunCompletedPublishedOnce ==
    \A c \in Subscribers :
        (stream[c].pc = "open" /\ stream[c].run \in RunIds
            /\ stream[c].since = "running"
            /\ runs[stream[c].run].status = "completed")
          => /\ Cardinality(PublishedOf(c, "run_completed")) = 1
             /\ PublishedOf(c, "run_completed") = {Len(published[c])}
             /\ (results[stream[c].run] # << >> => PublishedOf(c, "test_result") # {})


\* ---------------------------------------------------------------------------
\* Artifacts and the outcome of a run

\* C24: writing the artifacts never changes a run's outcome: the step in
\* which _generate_artifacts is attempted, whether or not the files can be
\* written, leaves the run completed, with the results and the counts it had.
C24_ArtifactsKeepOutcome ==
    [][\A r \in RunIds :
         (task[r].pc = "artifacts" /\ task'[r].pc = "done") =>
            /\ runs'[r].status = "completed"
            /\ results'[r] = results[r]
            /\ runs'[r].passed_tests = runs[r].passed_tests
            /\ runs'[r].failed_tests = runs[r].failed_tests
            /\ runs'[r].error_tests = runs[r].error_tests]_vars


\* ---------------------------------------------------------------------------
\* Timestamps of a finished run

\* C25: every run in a terminal status, by whichever path it got there, has
\* its end time set, not earlier than its start time, and a duration equal to
\* the difference of the two (in milliseconds).
C25_TerminalRunsAreTimed ==
    \A r \in RunIds :
        runs[r].status \in TerminalStatuses =>
            /\ runs[r].ended_at # NoneVal
            /\ runs[r].ended_at >= runs[r].started_at
            /\ runs[r].execution_time_ms = (runs[r].ended_at - runs[r].started_at) * 1000


\* ---------------------------------------------------------------------------
\* The warehouse connection of a run

\* C26: on every exit path the warehouse connection opened for a run is
\* closed: no run is in a terminal status while its connection is open.
C26_TerminalRunsAreDisconnected ==
    \A r \in RunIds : runs[r].status \in TerminalStatuses => ~connection[r]


\* ---------------------------------------------------------------------------
\* The AI adapter (LocalOllamaAdapter)

\* LocalOllamaAdapter.model
OllamaModel == "llama2"

\* what the Ollama service answers to a call: whether GET /api/tags shows the
\* model, and whether POST /api/generate returns a text, an error status or
\* an empty response
UpstreamAnswers == [health : {"ok", "down"}, generate : {"ok", "error", "empty"}]

\* _generate_stub: the text is made of the first characters of
\* md5(prompt|seed|model) and of a template chosen by the prompt
_generate_stub(prompt, seed) == <<"stub", prompt, seed, OllamaModel>>

\* the text the service returns for a payload; the service is taken to answer
\* the same payload with the same text
upstream_response(prompt, seed) == <<"ollama", prompt, seed, OllamaModel>>

\* _generate_with_ollama: the text, or the exception for a status other than
\* 200 or an empty response
_generate_with_ollama(prompt, seed, ans) ==
    IF ans.generate = "ok"
    THEN [raised |-> FALSE, text |-> upstream_response(prompt, seed)]
    ELSE [raised |-> TRUE, text |-> << >>]

\* health(): _is_available after the call
health(ans) == IF ans.health = "ok" THEN "True" ELSE "False"

\* the availability generate works with: the cached one, or that of health()
Availability(ans) == IF is_available = "None" THEN health(ans) ELSE is_available

\* LocalOllamaAdapter.generate: the text returned, or the ValueError
generate(prompt, seed, ans) ==
    IF prompt = ""
    THEN [raised |-> TRUE, text |-> << >>]
    ELSE IF Availability(ans) = "True"
    THEN IF _generate_with_ollama(prompt, seed, ans).raised
         THEN [raised |-> FALSE, text |-> _generate_stub(prompt, seed)]
         ELSE [raised |-> FALSE, text |-> _generate_with_ollama(prompt, seed, ans).text]
    ELSE [raised |-> FALSE, text |-> _generate_stub(prompt, seed)]

\* a call of generate(prompt, seed=seed)
Generate(prompt, seed, ans) ==
    LET g == generate(prompt, seed, ans)
    IN  /\ is_available' = IF prompt = "" THEN is_available ELSE Availability(ans)
        /\ generated' = IF g.raised THEN generated
                        ELSE [generated EXCEPT ![<<prompt, seed>>] = @ \cup {g.text}]
        /\ engine_result' = [op |-> "generate",
                             outcome |-> IF g.raised THEN "ValueError" ELSE "text"]
        /\ UNCHANGED executed
        /\ UNCHANGED <<guardVars, runnerVars, busVars, redactVars>>

\* a call of health(), as compile_expression and the health route make it
Health(ans) ==
    /\ is_available' = health(ans)
    /\ engine_result' = [op |-> "health", outcome |-> ans.health]
    /\ UNCHANGED <<generated, executed>>
    /\ UNCHANGED <<guardVars, runnerVars, busVars, redactVars>>

NextAdapter ==
    \/ \E prompt \in Prompts, seed \in Seeds, ans \in UpstreamAnswers :
            Generate(prompt, seed, ans)
    \/ \E ans \in UpstreamAnswers : Health(ans)

\* the adapter alone: calls of generate and health in any order, the service
\* answering or failing call by call
SpecAdapter == InitGuard /\ [][NextAdapter]_vars

\* C27: across any sequence of generate calls, any two calls with the same
\* (prompt, seed, model) return the same text: no triple has been answered
\* with two different texts.
C27_SameTripleSameText ==
    \A k \in Prompts \X Seeds : Cardinality(generated[k]) <= 1


\* ---------------------------------------------------------------------------
\* The statements a SnowflakeConnector executes

\* SnowflakeConnector._get_query_history: the statement it executes
history_sql ==
    <<"\n"," "," "," "," "," "," "," "," "," "," "," "," ","S","E","L","E","C","T"," ","\n"," ",
      " "," "," "," "," "," "," "," "," "," "," "," "," "," "," ","Q","U","E","R","Y","_","I",
      "D",",","\n"," "," "," "," "," "," "," "," "," "," "," "," "," "," "," "," ","B","Y","T",
      "E","S","_","S","C","A","N","N","E","D",",","\n"," "," "," "," "," "," "," "," "," "," ",
      " "," "," "," "," "," ","E","X","E","C","U","T","I","O","N","_","T","I","M","E",",","\n",
      " "," "," "," "," "," "," "," "," "," "," "," "," "," "," "," ","R","O","W","S","_","P",
      "R","O","D","U","C","E","D",",","\n"," "," "," "," "," "," "," "," "," "," "," "," "," ",
      " "," "," ","W","A","R","E","H","O","U","S","E","_","N","A","M","E",",","\n"," "," "," ",
      " "," "," "," "," "," "," "," "," "," "," "," "," ","R","O","L","E","_","N","A","M","E",
      ",","\n"," "," "," "," "," "," "," "," "," "," "," "," "," "," "," "," ","D","A","T","A",
      "B","A","S","E","_","N","A","M","E",",","\n"," "," "," "," "," "," "," "," "," "," "," ",
      " "," "," "," "," ","S","C","H","E","M","A","_","N","A","M","E","\n"," "," "," "," "," ",
      " "," "," "," "," "," "," ","F","R","O","M"," ","I","N","F","O","R","M","A","T","I","O",
      "N","_","S","C","H","E","M","A",".","Q","U","E","R","Y","_","H","I","S","T","O","R","Y",
      " ","\n"," "," "," "," "," "," "," "," "," "," "," "," ","W","H","E","R","E"," ","Q","U",
      "E","R","Y","_","I","D"," ","="," ","%","s","\n"," "," "," "," "," "," "," "," "," "," ",
      " "," ">>

\* SnowflakeConnector.test_connection: the statement it executes
test_sql ==
    <<"\n"," "," "," "," "," "," "," "," "," "," "," "," ","S","E","L","E","C","T"," ","\n"," ",
      " "," "," "," "," "," "," "," "," "," "," "," "," "," "," ","C","U","R","R","E","N","T",
      "_","T","I","M","E","S","T","A","M","P","(",")"," ","a","s"," ","t","e","s","t","_","t",
      "i","m","e",",","\n"," "," "," "," "," "," "," "," "," "," "," "," "," "," "," "," ","C",
      "U","R","R","E","N","T","_","R","O","L","E","(",")"," ","a","s"," ","c","u","r","r","e",
      "n","t","_","r","o","l","e",",","\n"," "," "," "," "," "," "," "," "," "," "," "," "," ",
      " "," "," ","C","U","R","R","E","N","T","_","W","A","R","E","H","O","U","S","E","(",")",
      " ","a","s"," ","c","u","r","r","e","n","t","_","w","a","r","e","h","o","u","s","e",",",
      "\n"," "," "," "," "," "," "," "," "," "," "," "," "," "," "," "," ","C","U","R","R","E",
      "N","T","_","D","A","T","A","B","A","S","E","(",")"," ","a","s"," ","c","u","r","r","e",
      "n","t","_","d","a","t","a","b","a","s","e",",","\n"," "," "," "," "," "," "," "," "," ",
      " "," "," "," "," "," "," ","C","U","R","R","E","N","T","_","S","C","H","E","M","A","(",
      ")"," ","a","s"," ","c","u","r","r","e","n","t","_","s","c","h","e","m","a",",","\n"," ",
      " "," "," "," "," "," "," "," "," "," "," "," "," "," "," ","C","U","R","R","E","N","T",
      "_","A","C","C","O","U","N","T","(",")"," ","a","s"," ","c","u","r","r","e","n","t","_",
      "a","c","c","o","u","n","t","\n"," "," "," "," "," "," "," "," "," "," "," "," ">>

\* SnowflakeConnector.get_table_schema: the statement it executes
schema_sql ==
    <<"\n"," "," "," "," "," "," "," "," "," "," "," "," ","S","E","L","E","C","T"," ","\n"," ",
      " "," "," "," "," "," "," "," "," "," "," "," "," "," "," ","C","O","L","U","M","N","_",
      "N","A","M","E",",","\n"," "," "," "," "," "," "," "," "," "," "," "," "," "," "," "," ",
      "D","A","T","A","_","T","Y","P","E",",","\n"," "," "," "," "," "," "," "," "," "," "," ",
      " "," "," "," "," ","I","S","_","N","U","L","L","A","B","L","E",",","\n"," "," "," "," ",
      " "," "," "," "," "," "," "," "," "," "," "," ","C","O","L","U","M","N","_","D","E","F",
      "A","U","L","T",",","\n"," "," "," "," "," "," "," "," "," "," "," "," "," "," "," "," ",
      "C","O","M","M","E","N","T","\n"," "," "," "," "," "," "," "," "," "," "," "," ","F","R",
      "O","M"," ","I","N","F","O","R","M","A","T","I","O","N","_","S","C","H","E","M","A",".",
      "C","O","L","U","M","N","S"," ","\n"," "," "," "," "," "," "," "," "," "," "," "," ","W",
      "H","E","R","E"," ","T","A","B","L","E","_","C","A","T","A","L","O","G"," ","="," ","%",
      "s"," ","\n"," "," "," "," "," "," "," "," "," "," "," "," "," "," ","A","N","D"," ","T",
      "A","B","L","E","_","S","C","H","E","M","A"," ","="," ","%","s"," ","\n"," "," "," "," ",
      " "," "," "," "," "," "," "," "," "," ","A","N","D"," ","T","A","B","L","E","_","N","A",
      "M","E"," ","="," ","%","s","\n"," "," "," "," "," "," "," "," "," "," "," "," ","O","R",
      "D","E","R"," ","B","Y"," ","O","R","D","I","N","A","L","_","P","O","S","I","T","I","O",
      "N","\n"," "," "," "," "," "," "," "," "," "," "," "," ">>

\* a statement a cursor executed; validated is whether the method handed it
\* to _validate_sql, which accepted it, before cursor.execute
Statement(op, stmt, validated) == [op |-> op, stmt |-> stmt, validated |-> validated]

\* SnowflakeConnector.explain on a connector of its own: the statement behind
\* EXPLAIN USING TEXT is validated first
ConnectorExplain(sql, ans) ==
    LET ex == explain(sql, allowed_schemas, FALSE, scan_budget_bytes, ans)
    IN  /\ executed' = executed \cup
               {Statement("explain", sql, validate(sql, allowed_schemas) = "ok") :
                    c \in {k \in ex.calls : k.op = "explain"}}
        /\ engine_result' = [op |-> "explain", outcome |-> IF ex.raised THEN ex.error ELSE "ok"]
        /\ UNCHANGED <<is_available, generated>>
        /\ UNCHANGED <<guardVars, runnerVars, busVars, redactVars>>

\* SnowflakeConnector.select on a connector of its own: the statement is
\* validated first; after cursor.execute(sql), _get_query_history executes
\* history_sql on the same connection
ConnectorSelect(sql, ans) ==
    LET se == select(sql, allowed_schemas, FALSE, ans)
    IN  /\ executed' = executed \cup
               UNION {{Statement("select", sql, validate(sql, allowed_schemas) = "ok"),
                       Statement("_get_query_history", history_sql, FALSE)} :
                    c \in {k \in se.calls : k.op = "select" /\ ~se.raised}}
        /\ engine_result' = [op |-> "select", outcome |-> IF se.raised THEN se.error ELSE "ok"]
        /\ UNCHANGED <<is_available, generated>>
        /\ UNCHANGED <<guardVars, runnerVars, busVars, redactVars>>

\* SnowflakeConnector.test_connection: connect, then cursor.execute(test_sql)
TestConnection(ans) ==
    /\ executed' = IF ans.connect = "ok"
                   THEN executed \cup {Statement("test_connection", test_sql, FALSE)}
                   ELSE executed
    /\ engine_result' = [op |-> "test_connection",
                         outcome |-> IF ans.connect = "ok" /\ ans.execute = "ok"
                                     THEN "success" ELSE "failed"]
    /\ UNCHANGED <<is_available, generated>>
    /\ UNCHANGED <<guardVars, runnerVars, busVars, redactVars>>

\* SnowflakeConnector.get_table_schema: connect, then cursor.execute(schema_sql, ...)
GetTableSchema(ans) ==
    /\ executed' = IF ans.connect = "ok"
                   THEN executed \cup {Statement("get_table_schema", schema_sql, FALSE)}
                   ELSE executed
    /\ engine_result' = [op |-> "get_table_schema",
                         outcome |-> IF ans.connect = "ok" /\ ans.execute = "ok"
                                     THEN "ok" ELSE "Upstream"]
    /\ UNCHANGED <<is_available, generated>>
    /\ UNCHANGED <<guardVars, runnerVars, busVars, redactVars>>

\* the callers that hand SQL to connector.execute_query without a guardrail
\* call: the static and the AI-generated tests of HybridTestEngine, the tests
\* of ETLTestEngine and the DESCRIBE TABLE of ZeroSQLService._get_table_schemas
QueryCallers == {"_run_static_tests", "_run_ai_tests", "run_pipeline_tests", "_get_table_schemas"}

\* await connector.connect(); await connector.execute_query(sql): the
\* connection is opened, and the attribute lookup raises, SnowflakeConnector
\* having no execute_query; the caller catches the exception.  No statement
\* is executed.
ExecuteQuery(caller, ans) ==
    /\ engine_result' = [op |-> caller,
                         outcome |-> IF ans.connect = "ok" THEN "AttributeError" ELSE "Upstream"]
    /\ UNCHANGED <<is_available, generated, executed>>
    /\ UNCHANGED <<guardVars, runnerVars, busVars, redactVars>>

\* the statements callers hand to explain and select: a count over each table name
CallerSql == {count_sql(Datasets[d]) : d \in DOMAIN Datasets}

NextWarehouse ==
    \/ \E sql \in CallerSql, ans \in ExplainAnswers : ConnectorExplain(sql, ans)
    \/ \E sql \in CallerSql, ans \in SelectAnswers : ConnectorSelect(sql, ans)
    \/ \E ans \in SelectAnswers : TestConnection(ans)
    \/ \E ans \in SelectAnswers : GetTableSchema(ans)
    \/ \E caller \in QueryCallers, ans \in SelectAnswers : ExecuteQuery(caller, ans)

\* the connector and the engines that use it, called in any order
SpecWarehouse == InitGuard /\ [][NextWarehouse]_vars

\* C28: every statement executed on the warehouse, on any code path, has
\* first been accepted by the guardrail.
C28_ExecutedStatementsWereValidated ==
    \A e \in executed : e.validated


\* ---------------------------------------------------------------------------
\* The end of a subscription

\* C29: every subscription eventually terminates once its run is in a
\* terminal status, also one opened after the run had finished: a stream that
\* is open on a run that is completed, failed or cancelled is eventually
\* closed by the service or left by its client.
C29_SubscriptionEndsAfterRun ==
    \A c \in Subscribers :
        (stream[c].pc = "open" /\ stream[c].run \in RunIds
            /\ runs[stream[c].run].status \in TerminalStatuses)
          ~> stream[c].pc # "open"


\* ---------------------------------------------------------------------------
\* The run routes and the service behind them

\* get_runner_service: the dependency of every run route returns a new
\* RunnerService(), whose _runs is the empty dict of __init__
get_runner_service == [r \in RunIds |-> NoRun]

\* RunnerService.get_run_summary: self._runs.get(run_id), NoRun for None
get_run_summary(all, run_id) == IF run_id \in RunIds THEN all[run_id] ELSE NoRun

\* RunnerService.list_runs without filters: the ids of the runs it returns
list_runs(all) == {r \in RunIds : all[r].status # "absent"}

\* GET /runs/{run_id}: 404 when get_run_summary returns None
RouteGetRun(run_id) ==
    /\ response' = Response("", IF get_run_summary(get_runner_service, run_id).status = "absent"
                                THEN "get_run 404" ELSE "get_run 200")
    /\ UNCHANGED <<runs, results, task, connection, wh_log, stats_result, scan_budget_bytes, now>>
    /\ UNCHANGED <<guardVars, busVars, redactVars, engineVars>>

\* GET /runs: the list of the service's runs
RouteListRuns ==
    /\ response' = Response("", IF list_runs(get_runner_service) = {}
                                THEN "list_runs empty" ELSE "list_runs some")
    /\ UNCHANGED <<runs, results, task, connection, wh_log, stats_result, scan_budget_bytes, now>>
    /\ UNCHANGED <<guardVars, busVars, redactVars, engineVars>>

\* POST /runs/{run_id}/cancel: cancel_run on the service of this request;
\* 404 when it returns False.  The service is dropped with the request.
RouteCancelRun(run_id) ==
    /\ response' = Response("", IF cancel_run(get_runner_service, run_id) = get_runner_service
                                THEN "cancel 404" ELSE "cancel 200")
    /\ UNCHANGED <<runs, results, task, connection, wh_log, stats_result, scan_budget_bytes, now>>
    /\ UNCHANGED <<guardVars, busVars, redactVars, engineVars>>

\* the run routes: POST /runs executes a suite on the service of its request,
\* whose _runs is runs, and the other routes are requested meanwhile and later
NextApi ==
    \/ \E suite_id \in {"orders_basic", "missing"}, dry_run \in BOOLEAN :
            ExecuteSuite(suite_id, dry_run, {}, TRUE, NoneVal)
    \/ \E r \in RunIds : TestExplain(r, ServedExplain)
    \/ \E r \in RunIds : TestSelect(r, ServedSelect, TRUE)
    \/ \E r \in RunIds : Finalize(r)
    \/ \E r \in RunIds : GenerateArtifacts(r, TRUE)
    \/ \E run_id \in 1..(MaxRuns + 1) : RouteGetRun(run_id)
    \/ RouteListRuns
    \/ \E run_id \in 1..(MaxRuns + 1) : RouteCancelRun(run_id)
    \/ Tick

SpecApi == InitGuard /\ [][NextApi]_vars

\* C30: a run created by the run-suite endpoint is visible to every later
\* request: a get-run request for its id returns its summary, list-runs
\* includes it, and a cancel request issued while it is running succeeds.
C30_RunsVisibleToLaterRequests ==
    [][\A run_id \in RunIds :
         runs[run_id].status # "absent" =>
            /\ RouteGetRun(run_id) => response'.outcome = "get_run 200"
            /\ RouteListRuns => response'.outcome = "list_runs some"
            /\ (RouteCancelRun(run_id) /\ runs[run_id].status = "running")
                  => response'.outcome = "cancel 200"]_vars

====
